---- MODULE Spec2Model ----
(***************************************************************************)
(* QueueForge: the time-stepped M/M/c simulation engine (QueueSimulation). *)
(*                                                                         *)
(* The engine owns one mutable SimulationState object and one              *)
(* SimulationConfig object.  Objects live in small heaps so that copying   *)
(* and aliasing are visible: this.state and this.config are references.    *)
(* Counters are integers.  currentTime, timeStep and duration are IEEE-754 *)
(* binary64 numbers, held exactly as an integer count of 2^-56 in two      *)
(* limbs of 30 bits, and added with round-to-nearest-even as the build     *)
(* adds them.  Math.random() is a nondeterministic choice, restricted by   *)
(* the probability it is compared with.                                    *)
(***************************************************************************)
EXTENDS Integers, Sequences, FiniteSets, TLC

VARIABLES stateObjs, stateRef, snapRef, cfgObjs, cfgRef, lastOp, lastArg, app

vars == <<stateObjs, stateRef, snapRef, cfgObjs, cfgRef, lastOp, lastArg, app>>

(* ------------------------------ bounds -------------------------------- *)

\* Largest numServers a configuration is given.
MaxServers == 2

\* The maxCapacity a finite-capacity configuration is given.
MaxCapacity == 2

\* Largest number of steps taken since construction or the last reset.
MaxSteps == 3

\* The same, in the specification of simulate() over longer runs.
MaxSimSteps == 7

\* The same, in the specification of a caller that keeps snapshots.
MaxSnapSteps == 2

\* Largest duration handed to simulate(), in tenths of a second.
MaxDuration == 4

\* Largest value written to a field of a snapshot.
MaxWrite == 1

\* Largest arrivalRate and serviceRate an analytic model is given.
MaxRate == 5

\* Largest numServers an analytic model is given.
MaxModelServers == 2

\* Largest number of waiting places, maxCapacity - numServers.
MaxWaiting == 2

\* Largest number of steps since construction or the last reset, in the
\* specification that records what each step did.
MaxTraceSteps == 3

\* The same, in the specification of a caller that keeps its configuration
\* object.
MaxCallerSteps == 1

\* The same, in the specification of simulate() taken one iteration at a
\* time.
MaxLoopSteps == 3

\* The same, for the engine the App component drives.
MaxAppSteps == 3

\* Largest simulationSpeed the App's slider is set to, in halves: 3 is a
\* speed of 1.5.
MaxSpeed == 3

\* The number of points the App's chart data keeps.  App keeps 600; the time
\* the binary64 model holds ends before 600 ticks, so the window is scaled
\* down and the claims about it are stated for this size.
MaxPoints == 2

(* --------------------------- binary64 numbers -------------------------- *)

\* A limb holds 30 bits.
LimbBase == 2^30

\* The number 0.
Zero == [neg |-> FALSE, hi |-> 0, lo |-> 0]

\* The binary64 number nearest to the decimal literal t/10, as a count of
\* 2^-56: 0.1 is 0x1.999999999999ap-4 = 7205759403792794 * 2^-56.
Tenths(t) ==
    LET mag == IF t < 0 THEN -t ELSE t
        m == CASE mag = 0  -> <<0, 0>>
               [] mag = 1  -> <<6710886, 429496730>>
               [] mag = 2  -> <<13421772, 858993460>>
               [] mag = 3  -> <<20132659, 214748364>>
               [] mag = 4  -> <<26843545, 644245096>>
               [] mag = 5  -> <<33554432, 0>>
               [] mag = 6  -> <<40265318, 429496728>>
               [] mag = 7  -> <<46976204, 858993456>>
               [] mag = 8  -> <<53687091, 214748368>>
               [] mag = 9  -> <<60397977, 644245096>>
               [] mag = 10 -> <<67108864, 0>>
    IN  [neg |-> t < 0 /\ mag # 0, hi |-> m[1], lo |-> m[2]]

RECURSIVE BitLen(_)
BitLen(n) == IF n = 0 THEN 0 ELSE 1 + BitLen(n \div 2)

MagLess(a, b) == a.hi < b.hi \/ (a.hi = b.hi /\ a.lo < b.lo)

\* Exact sum and difference of two magnitudes.
MagAdd(a, b) ==
    LET lo == a.lo + b.lo
    IN  [hi |-> a.hi + b.hi + (lo \div LimbBase), lo |-> lo % LimbBase]

MagSub(a, b) ==
    LET lo == a.lo - b.lo
    IN  IF lo < 0 THEN [hi |-> a.hi - b.hi - 1, lo |-> lo + LimbBase]
                  ELSE [hi |-> a.hi - b.hi, lo |-> lo]

\* Round an exact magnitude to the 53 significant bits of a binary64 number,
\* ties to even.
Round53(m) ==
    LET len == IF m.hi > 0 THEN 30 + BitLen(m.hi) ELSE BitLen(m.lo)
    IN  IF len <= 53 THEN m
        ELSE LET unit == 2^(len - 53)
                 r == m.lo % unit
                 down == [hi |-> m.hi, lo |-> m.lo - r]
                 odd == ((m.lo \div unit) % 2) = 1
                 up == 2 * r > unit \/ (2 * r = unit /\ odd)
             IN  IF up THEN MagAdd(down, [hi |-> 0, lo |-> unit]) ELSE down

Signed(neg, m) == [neg |-> neg /\ (m.hi # 0 \/ m.lo # 0), hi |-> m.hi, lo |-> m.lo]

\* a + b in binary64.
FAdd(a, b) ==
    IF a.neg = b.neg THEN Signed(a.neg, Round53(MagAdd(a, b)))
    ELSE IF MagLess(a, b) THEN Signed(b.neg, Round53(MagSub(b, a)))
    ELSE Signed(a.neg, Round53(MagSub(a, b)))

\* a < b in binary64.
FLess(a, b) ==
    CASE a.neg /\ ~b.neg -> TRUE
      [] ~a.neg /\ b.neg -> FALSE
      [] ~a.neg /\ ~b.neg -> MagLess(a, b)
      [] a.neg /\ b.neg -> MagLess(b, a)

(* ------------------------------ the data ------------------------------ *)

\* An optional configuration field holds <<>> when it is undefined and <<k>>
\* when it is the number k.
Undefined == <<>>
Defined(k) == <<k>>

\* An unused heap cell.
NoObject == [free |-> TRUE]

StateIds == {1, 2}
ConfigIds == {1, 2}

\* The object the caller passed to the constructor.
CallerConfig == 1

ConfigFields == {"arrivalRate", "serviceRate", "numServers", "timeStep", "maxCapacity"}

\* Rates are per minute; with timeStep 0.1 s the rate 12 gives a trial
\* probability of 0.02 and the rate 600 a probability of 1.
Rates == {12, 600}

\* timeStep, in tenths of a second.
TimeSteps == {1, 5}

\* config.timeStep holds a whole number of tenths of a second, or the code
\* TinyTimeStep for a timeStep of 2^-56 s (about 1.4e-17 s), the smallest
\* positive number the model holds.
TinyTimeStep == 11

\* config.timeStep as a binary64 number.
timeStepValue(t) ==
    IF t = TinyTimeStep THEN [neg |-> FALSE, hi |-> 0, lo |-> 1] ELSE Tenths(t)

FieldValues(f) ==
    CASE f = "arrivalRate" -> Rates
      [] f = "serviceRate" -> Rates
      [] f = "numServers" -> 1..MaxServers
      [] f = "timeStep" -> TimeSteps
      [] f = "maxCapacity" -> {Undefined, Defined(MaxCapacity)}

\* interface SimulationConfig, with the maxCapacity App hands to updateConfig.
SimulationConfig ==
    [arrivalRate : Rates, serviceRate : Rates, numServers : 1..MaxServers,
     timeStep : TimeSteps, maxCapacity : FieldValues("maxCapacity")]

\* The configuration App constructs its engine with: two servers, a timeStep
\* of 0.1 s, rates whose trials can go either way, no maxCapacity.
InitialConfigs ==
    {c \in SimulationConfig : /\ c.arrivalRate = 12 /\ c.serviceRate = 12
                              /\ c.numServers = 2 /\ c.timeStep = 1
                              /\ c.maxCapacity = Undefined}

SecondsPerMinute == 60

getInitialState ==
    [currentTime |-> Zero, queueLength |-> 0, serversBusy |-> 0,
     totalArrivals |-> 0, totalServed |-> 0, cumulativeQueueLength |-> 0,
     timeSteps |-> 0]

\* reset(): the state that replaces s.
resetKeepsAverage(s) ==
    [getInitialState EXCEPT !.cumulativeQueueLength = s.cumulativeQueueLength,
                            !.timeSteps = s.timeSteps]

reset(s) == getInitialState

\* this.state and this.config, dereferenced.
State == stateObjs[stateRef]
Config == cfgObjs[cfgRef]

Min(a, b) == IF a < b THEN a ELSE b
Max(a, b) == IF a > b THEN a ELSE b

\* The results Math.random() < (rate / 60) * timeStep can have.  Math.random()
\* is in [0, 1): the test never succeeds for a probability <= 0 and always
\* succeeds for a probability >= 1.  For every rate in 0..2000 and every
\* timeStep t/10 with t in 1..10 the binary64 product is >= 1 exactly when
\* rate * t >= 600.  With a timeStep of 2^-56 s the probability is above 0
\* and far below 1 for every positive rate.
Trial(rate, timeStep) ==
    IF timeStep = TinyTimeStep THEN (IF rate <= 0 THEN {FALSE} ELSE BOOLEAN)
    ELSE IF rate * timeStep <= 0 THEN {FALSE}
    ELSE IF rate * timeStep >= SecondsPerMinute * 10 THEN {TRUE}
    ELSE BOOLEAN

\* The completion loop running once more than there are busy servers.
CompletionsInclusive(busy, rate, timeStep) ==
    LET n == Max(busy, 0) + 1
    IN  {Cardinality({i \in 1..n : done[i]}) : done \in [1..n -> Trial(rate, timeStep)]}

\* The number of completions the loop over the busy servers can count.
Completions(busy, rate, timeStep) ==
    LET n == Max(busy, 0)
    IN  {Cardinality({i \in 1..n : done[i]}) : done \in [1..n -> Trial(rate, timeStep)]}

\* step() with the completions subtracted from the queue as they are.
stepUnclamped(s, c, arrivals, completions) ==
    LET queued == IF arrivals > 0 THEN s.queueLength + arrivals ELSE s.queueLength
        arrived == IF arrivals > 0 THEN s.totalArrivals + arrivals ELSE s.totalArrivals
        serversCurrentlyBusy == Min(queued + s.serversBusy, c.numServers)
        queueLength == queued - completions
    IN  [currentTime |-> FAdd(s.currentTime, timeStepValue(c.timeStep)),
         queueLength |-> queueLength,
         serversBusy |-> Max(0, serversCurrentlyBusy - completions),
         totalArrivals |-> arrived,
         totalServed |-> s.totalServed + completions,
         cumulativeQueueLength |-> s.cumulativeQueueLength + queueLength,
         timeSteps |-> s.timeSteps + 1]

\* step() with the busy servers not capped at numServers.
stepUncapped(s, c, arrivals, completions) ==
    LET queued == IF arrivals > 0 THEN s.queueLength + arrivals ELSE s.queueLength
        arrived == IF arrivals > 0 THEN s.totalArrivals + arrivals ELSE s.totalArrivals
        serversCurrentlyBusy == queued + s.serversBusy
        customersToServe == Min(queued, completions)
        queueLength == Max(0, queued - customersToServe)
    IN  [currentTime |-> FAdd(s.currentTime, timeStepValue(c.timeStep)),
         queueLength |-> queueLength,
         serversBusy |-> Max(0, serversCurrentlyBusy - completions),
         totalArrivals |-> arrived,
         totalServed |-> s.totalServed + completions,
         cumulativeQueueLength |-> s.cumulativeQueueLength + queueLength,
         timeSteps |-> s.timeSteps + 1]

\* step() adding the queue before the completions to the cumulative sum.
stepRecordsBefore(s, c, arrivals, completions) ==
    LET queued == IF arrivals > 0 THEN s.queueLength + arrivals ELSE s.queueLength
        arrived == IF arrivals > 0 THEN s.totalArrivals + arrivals ELSE s.totalArrivals
        serversCurrentlyBusy == Min(queued + s.serversBusy, c.numServers)
        customersToServe == Min(queued, completions)
        queueLength == Max(0, queued - customersToServe)
    IN  [currentTime |-> FAdd(s.currentTime, timeStepValue(c.timeStep)),
         queueLength |-> queueLength,
         serversBusy |-> Max(0, serversCurrentlyBusy - completions),
         totalArrivals |-> arrived,
         totalServed |-> s.totalServed + completions,
         cumulativeQueueLength |-> s.cumulativeQueueLength + queued,
         timeSteps |-> s.timeSteps + 1]

\* step() not counting the arrival in totalArrivals.
stepUncounted(s, c, arrivals, completions) ==
    LET queued == IF arrivals > 0 THEN s.queueLength + arrivals ELSE s.queueLength
        arrived == s.totalArrivals
        serversCurrentlyBusy == Min(queued + s.serversBusy, c.numServers)
        customersToServe == Min(queued, completions)
        queueLength == Max(0, queued - customersToServe)
    IN  [currentTime |-> FAdd(s.currentTime, timeStepValue(c.timeStep)),
         queueLength |-> queueLength,
         serversBusy |-> Max(0, serversCurrentlyBusy - completions),
         totalArrivals |-> arrived,
         totalServed |-> s.totalServed + completions,
         cumulativeQueueLength |-> s.cumulativeQueueLength + queueLength,
         timeSteps |-> s.timeSteps + 1]

\* step() never taking serversBusy below what it was minus the completions.
stepKeepsBusy(s, c, arrivals, completions) ==
    LET queued == IF arrivals > 0 THEN s.queueLength + arrivals ELSE s.queueLength
        arrived == IF arrivals > 0 THEN s.totalArrivals + arrivals ELSE s.totalArrivals
        serversCurrentlyBusy == Min(queued + s.serversBusy, c.numServers)
        customersToServe == Min(queued, completions)
        queueLength == Max(0, queued - customersToServe)
    IN  [currentTime |-> FAdd(s.currentTime, timeStepValue(c.timeStep)),
         queueLength |-> queueLength,
         serversBusy |-> Max(0, Max(serversCurrentlyBusy, s.serversBusy) - completions),
         totalArrivals |-> arrived,
         totalServed |-> s.totalServed + completions,
         cumulativeQueueLength |-> s.cumulativeQueueLength + queueLength,
         timeSteps |-> s.timeSteps + 1]

\* step() taking serversBusy from numServers.
stepBusyFromServers(s, c, arrivals, completions) ==
    LET queued == IF arrivals > 0 THEN s.queueLength + arrivals ELSE s.queueLength
        arrived == IF arrivals > 0 THEN s.totalArrivals + arrivals ELSE s.totalArrivals
        serversCurrentlyBusy == Min(queued + s.serversBusy, c.numServers)
        customersToServe == Min(queued, completions)
        queueLength == Max(0, queued - customersToServe)
    IN  [currentTime |-> FAdd(s.currentTime, timeStepValue(c.timeStep)),
         queueLength |-> queueLength,
         serversBusy |-> Max(0, c.numServers - completions),
         totalArrivals |-> arrived,
         totalServed |-> s.totalServed + completions,
         cumulativeQueueLength |-> s.cumulativeQueueLength + queueLength,
         timeSteps |-> s.timeSteps + 1]

\* step() with cumulativeQueueLength = queueLength in place of +=.
stepOverwritesCumulative(s, c, arrivals, completions) ==
    LET queued == IF arrivals > 0 THEN s.queueLength + arrivals ELSE s.queueLength
        arrived == IF arrivals > 0 THEN s.totalArrivals + arrivals ELSE s.totalArrivals
        serversCurrentlyBusy == Min(queued + s.serversBusy, c.numServers)
        customersToServe == Min(queued, completions)
        queueLength == Max(0, queued - customersToServe)
    IN  [currentTime |-> FAdd(s.currentTime, timeStepValue(c.timeStep)),
         queueLength |-> queueLength,
         serversBusy |-> Max(0, serversCurrentlyBusy - completions),
         totalArrivals |-> arrived,
         totalServed |-> s.totalServed + completions,
         cumulativeQueueLength |-> queueLength,
         timeSteps |-> s.timeSteps + 1]

\* step(), given the outcome of its random trials.
step(s, c, arrivals, completions) ==
    LET queued == IF arrivals > 0 THEN s.queueLength + arrivals ELSE s.queueLength
        arrived == IF arrivals > 0 THEN s.totalArrivals + arrivals ELSE s.totalArrivals
        serversCurrentlyBusy == Min(queued + s.serversBusy, c.numServers)
        customersToServe == Min(queued, completions)
        queueLength == Max(0, queued - customersToServe)
    IN  [currentTime |-> FAdd(s.currentTime, timeStepValue(c.timeStep)),
         queueLength |-> queueLength,
         serversBusy |-> Max(0, serversCurrentlyBusy - completions),
         totalArrivals |-> arrived,
         totalServed |-> s.totalServed + completions,
         cumulativeQueueLength |-> s.cumulativeQueueLength + queueLength,
         timeSteps |-> s.timeSteps + 1]

\* The trials of one step with up to two arrivals admitted.
StepTrialsBatch(s, c) ==
    UNION {{<<a, k>> : k \in Completions(Min(s.queueLength + a + s.serversBusy, c.numServers),
                                         c.serviceRate, c.timeStep)} :
           a \in UNION {IF hit THEN {1, 2} ELSE {0} : hit \in Trial(c.arrivalRate, c.timeStep)}}

\* Every (arrivals, completions) the trials of one step can produce.
StepTrials(s, c) ==
    UNION {{<<a, k>> : k \in Completions(Min(s.queueLength + a + s.serversBusy, c.numServers),
                                         c.serviceRate, c.timeStep)} :
           a \in {IF hit THEN 1 ELSE 0 : hit \in Trial(c.arrivalRate, c.timeStep)}}

\* updateConfig with the spread the other way round: { ...config, ...this.config }.
updateConfigReversed(c, partial) == c

\* updateConfig: { ...this.config, ...config }.
updateConfig(c, partial) ==
    [f \in ConfigFields |-> IF f \in DOMAIN partial THEN partial[f] ELSE c[f]]

\* The partial configurations handed to updateConfig: one field, or the four
\* fields App sets together.  No caller in the repository changes timeStep.
Partials ==
    UNION {{f :> v : v \in FieldValues(f)} : f \in ConfigFields \ {"timeStep"}} \cup
    [arrivalRate : Rates, serviceRate : Rates, numServers : 1..MaxServers,
     maxCapacity : FieldValues("maxCapacity")]

\* A new object takes the lowest cell of the state heap that no live
\* reference points to.
FreshState(live) == CHOOSE i \in StateIds \ live : \A j \in StateIds \ live : i <= j

\* The state heap with the objects nothing refers to collected.
Collect(objs, live) == [i \in StateIds |-> IF i \in live THEN objs[i] ELSE NoObject]

\* getState() returning this.state itself.
getStateAlias == [ref |-> stateRef, objs |-> Collect(stateObjs, {stateRef})]

\* getState(): { ...this.state }, a new object holding the fields of
\* this.state; the snapshot the caller held before is dropped.
getState ==
    LET new == FreshState({stateRef})
    IN  [ref |-> new,
         objs |-> Collect([stateObjs EXCEPT ![new] = State], {stateRef, new})]

getQueueLength == State.queueLength

getCurrentTime == State.currentTime

\* The run of simulate(): the samples pushed and the state after each step.
NoRun == [samples |-> <<>>, states |-> <<>>]

\* simulate(duration): while (currentTime < targetTime) { step(); push }.
RECURSIVE simulate(_, _, _, _)
simulate(s, c, targetTime, run) ==
    IF FLess(s.currentTime, targetTime)
    THEN UNION {simulate(s2, c, targetTime,
                         [samples |-> Append(run.samples, s2.queueLength),
                          states |-> Append(run.states, s2)]) :
                s2 \in {step(s, c, t[1], t[2]) : t \in StepTrials(s, c)}}
    ELSE {run}

\* The number of iterations the loop of simulate() makes: currentTime does
\* not depend on the trials.
RECURSIVE LoopCount(_, _, _)
LoopCount(time, timeStep, targetTime) ==
    IF FLess(time, targetTime)
    THEN 1 + LoopCount(FAdd(time, Tenths(timeStep)), timeStep, targetTime)
    ELSE 0

\* The durations handed to simulate(), in tenths of a second.
Durations == (-1)..MaxDuration

NoArg == [none |-> TRUE]

\* The engine used without the App component around it.
NoApp == [none |-> TRUE]

(* ------------------------- the analytic models ------------------------- *)

\* A JavaScript number the analytic models compute, held as the exact ratio
\* num / den in lowest terms with den > 0.  A den of 0 holds the values that
\* are not finite: 1/0 is Infinity, -1/0 is -Infinity, 0/0 is NaN.  The
\* rounding of binary64 is left out: every operation is exact.
Abs(n) == IF n < 0 THEN -n ELSE n

Sign(n) == IF n > 0 THEN 1 ELSE IF n < 0 THEN -1 ELSE 0

RECURSIVE Gcd(_, _)
Gcd(a, b) == IF b = 0 THEN a ELSE Gcd(b, a % b)

Number(n, d) ==
    IF d = 0 THEN [num |-> Sign(n), den |-> 0]
    ELSE LET g == Gcd(Abs(n), Abs(d))
         IN  [num |-> Sign(d) * (n \div g), den |-> Abs(d) \div g]

Whole(k) == [num |-> k, den |-> 1]

Infinity == [num |-> 1, den |-> 0]

NaN == [num |-> 0, den |-> 0]

\* Number.isFinite(x).
isFinite(x) == x.den # 0

Neg(x) == [num |-> -x.num, den |-> x.den]

\* x * y: Infinity * 0 is NaN.
Mul(x, y) ==
    IF x.den = 0 \/ y.den = 0 THEN Number(Sign(x.num) * Sign(y.num), 0)
    ELSE LET g1 == Gcd(Abs(x.num), y.den)
             g2 == Gcd(Abs(y.num), x.den)
         IN  Number((x.num \div g1) * (y.num \div g2), (x.den \div g2) * (y.den \div g1))

\* x / y: a finite non-zero number over 0 is an infinity, 0 / 0 is NaN.
Div(x, y) ==
    IF y.den = 0 THEN (IF x.den = 0 \/ y.num = 0 THEN NaN ELSE Whole(0))
    ELSE IF y.num = 0 THEN Number(x.num, 0)
    ELSE Mul(x, [num |-> Sign(y.num) * y.den, den |-> Abs(y.num)])

\* x + y: Infinity + -Infinity is NaN.
Add(x, y) ==
    IF x.den = 0 /\ y.den = 0 THEN (IF x = y THEN x ELSE NaN)
    ELSE IF x.den = 0 THEN x
    ELSE IF y.den = 0 THEN y
    ELSE LET g == Gcd(x.den, y.den)
         IN  Number(x.num * (y.den \div g) + y.num * (x.den \div g),
                    (x.den \div g) * y.den)

Sub(x, y) == Add(x, Neg(y))

\* x < y and x >= y: both are false when either side is NaN.
Less(x, y) ==
    IF x = NaN \/ y = NaN THEN FALSE
    ELSE IF x.den = 0 THEN x.num < 0 /\ y # x
    ELSE IF y.den = 0 THEN y.num > 0
    ELSE x.num * y.den < y.num * x.den

Geq(x, y) == x # NaN /\ y # NaN /\ ~Less(x, y)

\* Math.pow(x, k) for an integer k >= 0.
RECURSIVE pow(_, _)
pow(x, k) == IF k = 0 THEN Whole(1) ELSE Mul(pow(x, k - 1), x)

\* Math.abs(x) < 1e-10.  Every denominator held here is below 2^31 < 10^10,
\* so a number that is not 0 has a magnitude of at least 1/den > 1e-10.
BelowTolerance(x) == x.den # 0 /\ x.num = 0

\* factorial(n): 1 for n <= 1, else 2 * 3 * ... * n.
RECURSIVE factorial(_)
factorial(n) == IF n <= 1 THEN 1 ELSE factorial(n - 1) * n

\* The loop both models run: the sum of a^k / k! for k = 0 .. c - 1.
RECURSIVE SumTerms(_, _)
SumTerms(a, c) ==
    IF c = 0 THEN Whole(0)
    ELSE Add(SumTerms(a, c - 1), Div(pow(a, c - 1), Whole(factorial(c - 1))))

\* MMCQueueingModel (M/M/c).
calculateUtilization(params) ==
    Div(Whole(params.arrivalRate), Mul(Whole(params.serviceRate), Whole(params.numServers)))

\* isSystemStable with <= in place of <.
isSystemStableInclusive(params) == Geq(Whole(1), calculateUtilization(params))

isSystemStable(params) == Less(calculateUtilization(params), Whole(1))

\* calculateErlangC without the early return for a >= numServers.
calculateErlangCUnguarded(params) ==
    LET a == Div(Whole(params.arrivalRate), Whole(params.serviceRate))
        c == params.numServers
        numerator == Mul(Div(pow(a, c), Whole(factorial(c))),
                         Div(Whole(c), Sub(Whole(c), a)))
        denominator == Add(SumTerms(a, c), numerator)
    IN  Div(numerator, denominator)

calculateErlangC(params) ==
    LET a == Div(Whole(params.arrivalRate), Whole(params.serviceRate))
        c == params.numServers
    IN  IF Geq(a, Whole(c)) THEN Whole(1)
        ELSE LET numerator == Mul(Div(pow(a, c), Whole(factorial(c))),
                                  Div(Whole(c), Sub(Whole(c), a)))
                 denominator == Add(SumTerms(a, c), numerator)
             IN  Div(numerator, denominator)

calculateAverageQueueLength(params) ==
    IF ~isSystemStable(params) THEN Infinity
    ELSE LET rho == calculateUtilization(params)
             erlangC == calculateErlangC(params)
         IN  Div(Mul(erlangC, rho), Sub(Whole(1), rho))

calculateAverageSystemLength(params) ==
    IF ~isSystemStable(params) THEN Infinity
    ELSE Add(calculateAverageQueueLength(params),
             Div(Whole(params.arrivalRate), Whole(params.serviceRate)))

calculateAverageWaitTime(params) ==
    IF ~isSystemStable(params) THEN Infinity
    ELSE Div(calculateAverageQueueLength(params), Whole(params.arrivalRate))

\* calculateAverageSystemTime dividing by serviceRate.
calculateAverageSystemTimePerService(params) ==
    IF ~isSystemStable(params) THEN Infinity
    ELSE Div(calculateAverageSystemLength(params), Whole(params.serviceRate))

calculateAverageSystemTime(params) ==
    IF ~isSystemStable(params) THEN Infinity
    ELSE Div(calculateAverageSystemLength(params), Whole(params.arrivalRate))

\* calculateMetrics without the branch for an unstable system.
calculateMetricsAlwaysStable(params) ==
    [utilization |-> calculateUtilization(params),
     averageQueueLength |-> calculateAverageQueueLength(params),
     averageSystemLength |-> calculateAverageSystemLength(params),
     averageWaitTime |-> calculateAverageWaitTime(params),
     averageSystemTime |-> calculateAverageSystemTime(params),
     isStable |-> TRUE]

calculateMetrics(params) ==
    IF ~isSystemStable(params)
    THEN [utilization |-> calculateUtilization(params),
          averageQueueLength |-> Infinity,
          averageSystemLength |-> Infinity,
          averageWaitTime |-> Infinity,
          averageSystemTime |-> Infinity,
          isStable |-> FALSE]
    ELSE [utilization |-> calculateUtilization(params),
          averageQueueLength |-> calculateAverageQueueLength(params),
          averageSystemLength |-> calculateAverageSystemLength(params),
          averageWaitTime |-> calculateAverageWaitTime(params),
          averageSystemTime |-> calculateAverageSystemTime(params),
          isStable |-> TRUE]

\* calculateP0 without the branch for a utilization of 1.
calculateP0General(params) ==
    LET a == Div(Whole(params.arrivalRate), Whole(params.serviceRate))
        rho == Div(Whole(params.arrivalRate),
                   Mul(Whole(params.numServers), Whole(params.serviceRate)))
        c == params.numServers
        K == params.maxCapacity
        sum1 == SumTerms(a, c)
        acOverCFact == Div(pow(a, c), Whole(factorial(c)))
        sum2 == Div(Mul(acOverCFact, Sub(Whole(1), pow(rho, K - c + 1))),
                    Sub(Whole(1), rho))
    IN  Div(Whole(1), Add(sum1, sum2))

\* MMCKQueueingModel (M/M/c/K).
calculateP0(params) ==
    LET a == Div(Whole(params.arrivalRate), Whole(params.serviceRate))
        rho == Div(Whole(params.arrivalRate),
                   Mul(Whole(params.numServers), Whole(params.serviceRate)))
        c == params.numServers
        K == params.maxCapacity
        sum1 == SumTerms(a, c)
        acOverCFact == Div(pow(a, c), Whole(factorial(c)))
        sum2 == IF BelowTolerance(Sub(rho, Whole(1)))
                THEN Mul(acOverCFact, Whole(K - c + 1))
                ELSE Div(Mul(acOverCFact, Sub(Whole(1), pow(rho, K - c + 1))),
                         Sub(Whole(1), rho))
    IN  Div(Whole(1), Add(sum1, sum2))

\* calculateRejectionProbability without the factor p0.
calculateRejectionProbabilityUnnormalised(params) ==
    LET a == Div(Whole(params.arrivalRate), Whole(params.serviceRate))
        rho == Div(Whole(params.arrivalRate),
                   Mul(Whole(params.numServers), Whole(params.serviceRate)))
        c == params.numServers
        K == params.maxCapacity
    IN  IF K <= c THEN Div(pow(a, K), Whole(factorial(K)))
        ELSE Mul(Div(pow(a, c), Whole(factorial(c))), pow(rho, K - c))

calculateRejectionProbability(params) ==
    LET a == Div(Whole(params.arrivalRate), Whole(params.serviceRate))
        rho == Div(Whole(params.arrivalRate),
                   Mul(Whole(params.numServers), Whole(params.serviceRate)))
        c == params.numServers
        K == params.maxCapacity
        p0 == calculateP0(params)
    IN  IF K <= c THEN Div(Mul(p0, pow(a, K)), Whole(factorial(K)))
        ELSE Mul(Mul(p0, Div(pow(a, c), Whole(factorial(c)))), pow(rho, K - c))

\* calculateAverageQueueLength with n = K - c + 1 in the general branch.
MMCKcalculateAverageQueueLengthShifted(params) ==
    LET a == Div(Whole(params.arrivalRate), Whole(params.serviceRate))
        rho == Div(Whole(params.arrivalRate),
                   Mul(Whole(params.numServers), Whole(params.serviceRate)))
        c == params.numServers
        K == params.maxCapacity
        p0 == calculateP0(params)
        acOverCFact == Div(pow(a, c), Whole(factorial(c)))
        n == K - c + 1
        numerator == Sub(Sub(Whole(1), pow(rho, n + 1)),
                         Mul(Mul(Whole(n + 1), pow(rho, n)), Sub(Whole(1), rho)))
    IN  IF BelowTolerance(Sub(rho, Whole(1)))
        THEN Div(Mul(Mul(acOverCFact, p0), Whole((K - c) * (K - c + 1))), Whole(2))
        ELSE Div(Mul(Mul(Mul(acOverCFact, rho), p0), numerator),
                 pow(Sub(Whole(1), rho), 2))

MMCKcalculateAverageQueueLength(params) ==
    LET a == Div(Whole(params.arrivalRate), Whole(params.serviceRate))
        rho == Div(Whole(params.arrivalRate),
                   Mul(Whole(params.numServers), Whole(params.serviceRate)))
        c == params.numServers
        K == params.maxCapacity
        p0 == calculateP0(params)
        acOverCFact == Div(pow(a, c), Whole(factorial(c)))
        n == K - c
        numerator == Sub(Sub(Whole(1), pow(rho, n + 1)),
                         Mul(Mul(Whole(n + 1), pow(rho, n)), Sub(Whole(1), rho)))
    IN  IF BelowTolerance(Sub(rho, Whole(1)))
        THEN Div(Mul(Mul(acOverCFact, p0), Whole((K - c) * (K - c + 1))), Whole(2))
        ELSE Div(Mul(Mul(Mul(acOverCFact, rho), p0), numerator),
                 pow(Sub(Whole(1), rho), 2))

\* calculateMetrics with the wait in queue taken over arrivalRate.
MMCKcalculateMetricsOffered(params) ==
    LET rho == Div(Whole(params.arrivalRate),
                   Mul(Whole(params.numServers), Whole(params.serviceRate)))
        rejectionProbability == calculateRejectionProbability(params)
        lambdaEff == Mul(Whole(params.arrivalRate), Sub(Whole(1), rejectionProbability))
        positive == Less(Whole(0), lambdaEff)
        lq == MMCKcalculateAverageQueueLength(params)
        l == Add(lq, IF positive THEN Div(lambdaEff, Whole(params.serviceRate))
                     ELSE Whole(0))
        wq == IF positive THEN Div(lq, Whole(params.arrivalRate)) ELSE Whole(0)
        w == IF positive THEN Div(l, lambdaEff) ELSE Whole(0)
    IN  [utilization |-> rho,
         averageQueueLength |-> lq,
         averageSystemLength |-> l,
         averageWaitTime |-> wq,
         averageSystemTime |-> w,
         rejectionProbability |-> rejectionProbability,
         isStable |-> TRUE]

MMCKcalculateMetrics(params) ==
    LET rho == Div(Whole(params.arrivalRate),
                   Mul(Whole(params.numServers), Whole(params.serviceRate)))
        rejectionProbability == calculateRejectionProbability(params)
        lambdaEff == Mul(Whole(params.arrivalRate), Sub(Whole(1), rejectionProbability))
        positive == Less(Whole(0), lambdaEff)
        lq == MMCKcalculateAverageQueueLength(params)
        l == Add(lq, IF positive THEN Div(lambdaEff, Whole(params.serviceRate))
                     ELSE Whole(0))
        wq == IF positive THEN Div(lq, lambdaEff) ELSE Whole(0)
        w == IF positive THEN Div(l, lambdaEff) ELSE Whole(0)
    IN  [utilization |-> rho,
         averageQueueLength |-> lq,
         averageSystemLength |-> l,
         averageWaitTime |-> wq,
         averageSystemTime |-> w,
         rejectionProbability |-> rejectionProbability,
         isStable |-> TRUE]

\* getAverageQueueLength(): one division of two whole numbers.
getAverageQueueLength ==
    IF State.timeSteps = 0 THEN Whole(0)
    ELSE Div(Whole(State.cumulativeQueueLength), Whole(State.timeSteps))

\* interface MMCKQueueingParameters: whole rates per minute, as the sliders
\* of the application give them, and numServers <= maxCapacity.
MMCKQueueingParameters ==
    {p \in [arrivalRate : 1..MaxRate, serviceRate : 1..MaxRate,
            numServers : 1..MaxModelServers,
            maxCapacity : 1..(MaxModelServers + MaxWaiting)] :
        /\ p.maxCapacity >= p.numServers
        /\ p.maxCapacity <= p.numServers + MaxWaiting}

\* interface QueueingParameters: the M/M/c fields of a parameter set.
QueueingParameters(p) ==
    [arrivalRate |-> p.arrivalRate, serviceRate |-> p.serviceRate,
     numServers |-> p.numServers]

(* ----------------------------- operations ----------------------------- *)

\* new QueueSimulation(config): this.config is the caller's object.
InitWith(configs) ==
    /\ \E c \in configs :
          cfgObjs = [i \in ConfigIds |-> IF i = CallerConfig THEN c ELSE NoObject]
    /\ cfgRef = CallerConfig
    /\ stateRef = 1
    /\ stateObjs = [i \in StateIds |-> IF i = 1 THEN getInitialState ELSE NoObject]
    /\ snapRef = 0
    /\ lastOp = "new"
    /\ lastArg = NoArg
    /\ app = NoApp

Init == InitWith(InitialConfigs)

\* step(): this.state is updated in place.
StepOp(bound) ==
    /\ State.timeSteps < bound
    /\ \E t \in StepTrials(State, Config) :
          stateObjs' = [stateObjs EXCEPT ![stateRef] = step(State, Config, t[1], t[2])]
    /\ lastOp' = "step"
    /\ UNCHANGED app
    /\ lastArg' = NoArg
    /\ UNCHANGED <<stateRef, snapRef, cfgObjs, cfgRef>>

Step == StepOp(MaxSteps)

\* reset(): this.state becomes a new object; the old one stays alive only if
\* something else refers to it.
Reset ==
    LET new == FreshState({snapRef})
    IN  /\ stateRef' = new
        /\ stateObjs' = Collect([stateObjs EXCEPT ![new] = reset(State)], {new, snapRef})
        /\ lastOp' = "reset"
        /\ UNCHANGED app
        /\ lastArg' = NoArg
        /\ UNCHANGED <<snapRef, cfgObjs, cfgRef>>

\* updateConfig(partial): this.config becomes a new object.
UpdateConfig ==
    /\ \E partial \in Partials :
          /\ cfgObjs' = [cfgObjs EXCEPT ![2] = updateConfig(Config, partial)]
          /\ lastArg' = [partial |-> partial]
    /\ cfgRef' = 2
    /\ lastOp' = "updateConfig"
    /\ UNCHANGED app
    /\ UNCHANGED <<stateObjs, stateRef, snapRef>>

\* simulate(duration), the whole loop.
SimulateOp(bound) ==
    \E duration \in {d \in Durations : d <= (bound - State.timeSteps + 1) * Config.timeStep} :
       LET targetTime == FAdd(State.currentTime, Tenths(duration))
       IN  /\ State.timeSteps + LoopCount(State.currentTime, Config.timeStep, targetTime)
                <= bound
           /\ \E run \in simulate(State, Config, targetTime, NoRun) :
                 /\ stateObjs' = [stateObjs EXCEPT ![stateRef] =
                                     IF run.states = <<>> THEN State
                                     ELSE run.states[Len(run.states)]]
                 /\ lastArg' = [duration |-> duration, from |-> State,
                                samples |-> run.samples, states |-> run.states]
           /\ lastOp' = "simulate"
           /\ UNCHANGED app
           /\ UNCHANGED <<stateRef, snapRef, cfgObjs, cfgRef>>

Simulate == SimulateOp(MaxSteps)

\* const snapshot = simulation.getState().
GetState ==
    /\ snapRef' = getState.ref
    /\ stateObjs' = getState.objs
    /\ lastOp' = "getState"
    /\ UNCHANGED app
    /\ lastArg' = NoArg
    /\ UNCHANGED <<stateRef, cfgObjs, cfgRef>>

\* The caller writes to a field of the snapshot it holds.
WriteSnapshot ==
    /\ snapRef # 0
    /\ \E v \in 0..MaxWrite :
          \/ stateObjs' = [stateObjs EXCEPT ![snapRef].queueLength = v]
          \/ stateObjs' = [stateObjs EXCEPT ![snapRef].currentTime = Tenths(v)]
    /\ lastOp' = "writeSnapshot"
    /\ UNCHANGED app
    /\ lastArg' = NoArg
    /\ UNCHANGED <<stateRef, snapRef, cfgObjs, cfgRef>>

Next == Step \/ Reset \/ UpdateConfig \/ Simulate

Spec == Init /\ [][Next]_vars

\* The engine and a caller that keeps snapshots of its state.
SnapStep == StepOp(MaxSnapSteps)

SnapNext == SnapStep \/ Reset \/ GetState \/ WriteSnapshot

SnapSpec == Init /\ [][SnapNext]_vars

\* simulate() over runs long enough for binary64 rounding to show: one
\* server, a timeStep of 0.1 s or 0.5 s, completions that always succeed.
SimConfigs ==
    {c \in SimulationConfig : /\ c.arrivalRate = 12 /\ c.serviceRate = 600
                              /\ c.numServers = 1 /\ c.maxCapacity = Undefined}

SimInit == InitWith(SimConfigs)

SimStep == StepOp(MaxSimSteps)

SimSimulate == SimulateOp(MaxSimSteps)

SimNext == SimStep \/ SimSimulate \/ Reset

SimSpec == SimInit /\ [][SimNext]_vars

\* The analytic models: a parameter set is drawn, and each model is applied
\* to it.  lastArg holds the parameter set and what the last call returned.
ModelInit ==
    /\ \E c \in InitialConfigs :
          cfgObjs = [i \in ConfigIds |-> IF i = CallerConfig THEN c ELSE NoObject]
    /\ cfgRef = CallerConfig
    /\ stateRef = 1
    /\ stateObjs = [i \in StateIds |-> IF i = 1 THEN getInitialState ELSE NoObject]
    /\ snapRef = 0
    /\ lastOp = "params"
    /\ \E p \in MMCKQueueingParameters : lastArg = [params |-> p]
    /\ app = NoApp

\* MMCQueueingModel applied to the parameter set.
MMCCalculate ==
    LET p == QueueingParameters(lastArg.params)
    IN  /\ lastOp' = "MMCQueueingModel"
        /\ UNCHANGED app
        /\ lastArg' = [params |-> lastArg.params,
                       isStable |-> isSystemStable(p),
                       erlangC |-> calculateErlangC(p),
                       metrics |-> calculateMetrics(p)]
        /\ UNCHANGED <<stateObjs, stateRef, snapRef, cfgObjs, cfgRef>>

\* MMCKQueueingModel applied to the parameter set.
MMCKCalculate ==
    LET p == lastArg.params
    IN  /\ lastOp' = "MMCKQueueingModel"
        /\ UNCHANGED app
        /\ lastArg' = [params |-> p,
                       rejectionProbability |-> calculateRejectionProbability(p),
                       averageQueueLength |-> MMCKcalculateAverageQueueLength(p),
                       metrics |-> MMCKcalculateMetrics(p)]
        /\ UNCHANGED <<stateObjs, stateRef, snapRef, cfgObjs, cfgRef>>

ModelNext == MMCCalculate \/ MMCKCalculate

ModelSpec == ModelInit /\ [][ModelNext]_vars

\* The engine with a record of its steps: lastArg holds the queueLength each
\* step since construction or the last reset left behind, and the state the
\* last step began in.
Trace ==
    IF lastOp \in {"step", "updateConfig"} THEN lastArg
    ELSE [samples |-> <<>>, before |-> State]

TraceStep ==
    /\ State.timeSteps < MaxTraceSteps
    /\ \E t \in StepTrials(State, Config) :
          stateObjs' = [stateObjs EXCEPT ![stateRef] = step(State, Config, t[1], t[2])]
    /\ UNCHANGED <<stateRef, snapRef, cfgObjs, cfgRef>>
    /\ lastOp' = "step"
    /\ UNCHANGED app
    /\ lastArg' = [samples |-> Append(Trace.samples, State'.queueLength), before |-> State]

TraceUpdateConfig ==
    /\ \E partial \in Partials :
          cfgObjs' = [cfgObjs EXCEPT ![2] = updateConfig(Config, partial)]
    /\ cfgRef' = 2
    /\ lastOp' = "updateConfig"
    /\ UNCHANGED app
    /\ lastArg' = [samples |-> Trace.samples, before |-> State]
    /\ UNCHANGED <<stateObjs, stateRef, snapRef>>

TraceNext == TraceStep \/ Reset \/ TraceUpdateConfig

TraceSpec == Init /\ [][TraceNext]_vars

\* The engine and a caller that keeps the object it passed to the
\* constructor and writes to its fields.
CallerStep == StepOp(MaxCallerSteps)

WriteConfig ==
    /\ \E f \in ConfigFields \ {"maxCapacity"} :
          \E v \in FieldValues(f) :
             cfgObjs' = [cfgObjs EXCEPT ![CallerConfig][f] = v]
    /\ lastOp' = "writeConfig"
    /\ UNCHANGED app
    /\ lastArg' = NoArg
    /\ UNCHANGED <<stateObjs, stateRef, snapRef, cfgRef>>

CallerNext == CallerStep \/ WriteConfig \/ UpdateConfig

CallerSpec == Init /\ [][CallerNext]_vars

\* simulate() taken one iteration of its loop at a time, with a timeStep
\* that updateConfig changes between calls.  While lastOp is "simulate:loop"
\* the call is inside its loop and lastArg holds targetTime and samples.
LoopConfigs ==
    {c \in SimulationConfig : /\ c.arrivalRate = 12 /\ c.serviceRate = 12
                              /\ c.numServers = 1 /\ c.maxCapacity = Undefined}

LoopInit == InitWith(LoopConfigs)

InLoop == lastOp = "simulate:loop"

LoopStep == ~InLoop /\ StepOp(MaxLoopSteps)

\* updateConfig({ timeStep }).
SetTimeStep ==
    /\ ~InLoop
    /\ \E t \in TimeSteps \cup {TinyTimeStep} :
          /\ cfgObjs' = [cfgObjs EXCEPT ![2] = updateConfig(Config, [timeStep |-> t])]
          /\ lastArg' = [partial |-> [timeStep |-> t]]
    /\ cfgRef' = 2
    /\ lastOp' = "updateConfig"
    /\ UNCHANGED app
    /\ UNCHANGED <<stateObjs, stateRef, snapRef>>

\* const samples = []; const targetTime = this.state.currentTime + duration.
SimulateCall ==
    /\ ~InLoop
    /\ \E duration \in 1..MaxDuration :
          lastArg' = [targetTime |-> FAdd(State.currentTime, Tenths(duration)),
                      samples |-> <<>>]
    /\ lastOp' = "simulate:loop"
    /\ UNCHANGED app
    /\ UNCHANGED <<stateObjs, stateRef, snapRef, cfgObjs, cfgRef>>

\* while (currentTime < targetTime) { this.step(); samples.push(queueLength) }.
SimulateIterate ==
    /\ InLoop
    /\ FLess(State.currentTime, lastArg.targetTime)
    /\ State.timeSteps < MaxLoopSteps
    /\ \E t \in StepTrials(State, Config) :
          stateObjs' = [stateObjs EXCEPT ![stateRef] = step(State, Config, t[1], t[2])]
    /\ UNCHANGED <<stateRef, snapRef, cfgObjs, cfgRef>>
    /\ lastOp' = "simulate:loop"
    /\ UNCHANGED app
    /\ lastArg' = [lastArg EXCEPT !.samples = Append(@, State'.queueLength)]

\* return samples.
SimulateReturn ==
    /\ InLoop
    /\ ~FLess(State.currentTime, lastArg.targetTime)
    /\ lastOp' = "simulate"
    /\ UNCHANGED app
    /\ lastArg' = [samples |-> lastArg.samples]
    /\ UNCHANGED <<stateObjs, stateRef, snapRef, cfgObjs, cfgRef>>

LoopNext == LoopStep \/ SetTimeStep \/ SimulateCall \/ SimulateIterate \/ SimulateReturn

LoopSpec == LoopInit /\ [][LoopNext]_vars

(* ------------------------------- the App ------------------------------- *)

\* The App component: its React state (the parameters, simulationSpeed in
\* halves, selectedModel, isRunning, data) and interval, which says whether
\* the timer of the simulation loop effect is registered.  A handler, the
\* render it causes and the effects of that render are one action: the
\* handlers run from discrete events, whose effects React 18 flushes before
\* any timer callback can run.
QueueModelType == {"MMC", "MMCK"}

DataPoint(time, queueLength) == [time |-> time, queueLength |-> queueLength]

\* useState<DataPoint[]>([{ time: 0, queueLength: 0 }]).
InitialData == <<DataPoint(Zero, 0)>>

\* The state of App's first render.
InitialApp ==
    [arrivalRate |-> 10, serviceRate |-> 12, numServers |-> 2,
     simulationSpeed |-> 2, selectedModel |-> "MMC", maxCapacity |-> 10,
     isRunning |-> FALSE, data |-> InitialData, interval |-> FALSE]

\* Math.ceil(simulationSpeed), simulationSpeed in halves.
stepsToRun(simulationSpeed) == (simulationSpeed + 1) \div 2

\* newData.slice(-600) keeping one point more than the window.
sliceInclusive(newData) ==
    IF Len(newData) <= MaxPoints + 1 THEN newData
    ELSE SubSeq(newData, Len(newData) - MaxPoints, Len(newData))

\* newData.slice(-600), the window scaled to MaxPoints.
slice(newData) ==
    IF Len(newData) <= MaxPoints THEN newData
    ELSE SubSeq(newData, Len(newData) - MaxPoints + 1, Len(newData))

\* for (let i = 0; i < stepsToRun; i++) simulation.step(): the states the
\* engine can be left in.
RECURSIVE runSteps(_, _, _)
runSteps(s, c, n) ==
    IF n = 0 THEN {s}
    ELSE UNION {runSteps(step(s, c, t[1], t[2]), c, n - 1) : t \in StepTrials(s, c)}

\* The effect that bumps maxCapacity when numServers reaches it.
autoBump(a) ==
    IF a.maxCapacity <= a.numServers THEN [a EXCEPT !.maxCapacity = a.numServers + 1]
    ELSE a

\* What the effect that updates the engine's configuration depends on, and
\* the partial configuration it hands to updateConfig.
ConfigDeps(a) == <<a.arrivalRate, a.serviceRate, a.numServers, a.selectedModel, a.maxCapacity>>

AppPartial(a) ==
    [arrivalRate |-> a.arrivalRate, serviceRate |-> a.serviceRate,
     numServers |-> a.numServers,
     maxCapacity |-> IF a.selectedModel = "MMCK" THEN Defined(a.maxCapacity) ELSE Undefined]

\* The simulation loop effect without its cleanup: a timer once registered
\* stays registered.
simulationLoopEffectNoCleanup(prev, a) ==
    IF <<prev.isRunning, prev.simulationSpeed>> = <<a.isRunning, a.simulationSpeed>> THEN a
    ELSE [a EXCEPT !.interval = a.interval \/ a.isRunning]

\* The simulation loop effect, run when isRunning or simulationSpeed has
\* changed: the cleanup clears the timer of the previous run, and a new timer
\* is registered only if isRunning.
simulationLoopEffect(prev, a) ==
    IF <<prev.isRunning, prev.simulationSpeed>> = <<a.isRunning, a.simulationSpeed>> THEN a
    ELSE [a EXCEPT !.interval = a.isRunning]

\* The render after a handler has set the state to a, and its effects.
Commit(a) ==
    LET b == autoBump(a)
    IN  /\ app' = simulationLoopEffect(app, b)
        /\ IF ConfigDeps(b) # ConfigDeps(app)
           THEN /\ cfgObjs' = [cfgObjs EXCEPT ![2] = updateConfig(Config, AppPartial(b))]
                /\ cfgRef' = 2
           ELSE UNCHANGED <<cfgObjs, cfgRef>>

\* simulationRef.current.reset().
EngineReset ==
    LET new == FreshState({snapRef})
    IN  /\ stateRef' = new
        /\ stateObjs' = Collect([stateObjs EXCEPT ![new] = reset(State)], {new, snapRef})

\* The App mounted: the engine constructed with timeStep 0.1, and the effects
\* of the first render run, of which updateConfig gives the engine a
\* configuration object of its own.
AppInit ==
    LET config == [arrivalRate |-> InitialApp.arrivalRate,
                   serviceRate |-> InitialApp.serviceRate,
                   numServers |-> InitialApp.numServers,
                   timeStep |-> 1, maxCapacity |-> Undefined]
    IN  /\ cfgObjs = [i \in ConfigIds |->
                        IF i = CallerConfig THEN config
                        ELSE updateConfig(config, AppPartial(InitialApp))]
        /\ cfgRef = 2
        /\ stateRef = 1
        /\ stateObjs = [i \in StateIds |-> IF i = 1 THEN getInitialState ELSE NoObject]
        /\ snapRef = 0
        /\ lastOp = "mount"
        /\ lastArg = NoArg
        /\ app = InitialApp

\* The callback of setInterval: it runs only while its timer is registered.
Tick ==
    /\ app.interval
    /\ State.timeSteps + stepsToRun(app.simulationSpeed) <= MaxAppSteps
    /\ \E s \in runSteps(State, Config, stepsToRun(app.simulationSpeed)) :
          /\ stateObjs' = [stateObjs EXCEPT ![stateRef] = s]
          /\ app' = [app EXCEPT !.data =
                        slice(Append(@, DataPoint(s.currentTime, s.queueLength)))]
    /\ lastOp' = "tick"
    /\ lastArg' = NoArg
    /\ UNCHANGED <<stateRef, snapRef, cfgObjs, cfgRef>>

\* handlePlayPause: setIsRunning((prev) => !prev).
HandlePlayPause ==
    /\ Commit([app EXCEPT !.isRunning = ~@])
    /\ lastOp' = "handlePlayPause"
    /\ lastArg' = NoArg
    /\ UNCHANGED <<stateObjs, stateRef, snapRef>>

\* handleReset.
HandleReset ==
    /\ EngineReset
    /\ Commit([app EXCEPT !.isRunning = FALSE, !.data = InitialData])
    /\ lastOp' = "handleReset"
    /\ lastArg' = NoArg
    /\ UNCHANGED snapRef

\* handleModelChange(model).
HandleModelChange ==
    /\ EngineReset
    /\ \E model \in QueueModelType :
          Commit([app EXCEPT !.selectedModel = model, !.isRunning = FALSE,
                             !.data = InitialData])
    /\ lastOp' = "handleModelChange"
    /\ lastArg' = NoArg
    /\ UNCHANGED snapRef

\* The numServers slider.
SetNumServers ==
    /\ \E n \in 1..MaxServers : Commit([app EXCEPT !.numServers = n])
    /\ lastOp' = "setNumServers"
    /\ lastArg' = NoArg
    /\ UNCHANGED <<stateObjs, stateRef, snapRef>>

\* The simulationSpeed slider.
SetSimulationSpeed ==
    /\ \E v \in 1..MaxSpeed : Commit([app EXCEPT !.simulationSpeed = v])
    /\ lastOp' = "setSimulationSpeed"
    /\ lastArg' = NoArg
    /\ UNCHANGED <<stateObjs, stateRef, snapRef>>

AppNext ==
    \/ Tick \/ HandlePlayPause \/ HandleReset \/ HandleModelChange
    \/ SetNumServers \/ SetSimulationSpeed

AppSpec == AppInit /\ [][AppNext]_vars

(* ------------------------------- claims ------------------------------- *)

\* ceil(a / b) for b > 0.
CeilDiv(a, b) == (a + b - 1) \div b

\* The engine has run at least one step since the last operation began.
Stepped == lastOp = "step" \/ (lastOp = "simulate" /\ lastArg.states # <<>>)

\* C1: totalServed <= totalArrivals in every reachable state.
C1_ServedAtMostArrivals == State.totalServed <= State.totalArrivals

\* C2: queueLength >= 0 after every step, and every sample simulate()
\* returns is >= 0.
C2_QueueNeverNegative ==
    /\ State.queueLength >= 0
    /\ lastOp = "simulate" =>
          \A i \in 1..Len(lastArg.samples) : lastArg.samples[i] >= 0

\* C2 witness: a run of simulate() in which a completion emptied the queue.
C2_Witness ==
    /\ lastOp = "simulate"
    /\ Len(lastArg.samples) >= 2
    /\ lastArg.samples[1] > 0
    /\ lastArg.samples[Len(lastArg.samples)] = 0
    /\ State.totalServed > 0

\* C3, as stated: 0 <= serversBusy <= the configured numServers in every
\* reachable state, updateConfig calls included.
C3_BusyWithinConfigured ==
    /\ 0 <= State.serversBusy
    /\ State.serversBusy <= Config.numServers

\* C3, amended: serversBusy >= 0 in every reachable state, and serversBusy <=
\* the configured numServers right after construction, reset() and every
\* step(); updateConfig leaves serversBusy as it is.
C3_BusyWithinConfiguredAfterStep ==
    /\ 0 <= State.serversBusy
    /\ (lastOp \in {"new", "reset"} \/ Stepped) => State.serversBusy <= Config.numServers

\* C3 witness: a step that ran with one server configured after updateConfig,
\* with customers waiting, left exactly one server busy.
C3_Witness ==
    /\ lastOp = "step"
    /\ cfgRef # CallerConfig
    /\ Config.numServers = 1
    /\ State.queueLength >= 2
    /\ State.serversBusy = 1

\* C4: queueLength + serversBusy <= totalArrivals - totalServed in every
\* state reached by steps.
C4_InSystemAtMostUnserved ==
    State.queueLength + State.serversBusy <= State.totalArrivals - State.totalServed

\* C5: totalArrivals = totalServed + queueLength + serversBusy after any
\* sequence of steps.
C5_ArrivalsAccounted ==
    State.totalArrivals = State.totalServed + State.queueLength + State.serversBusy

\* C6: with maxCapacity K configured, queueLength + serversBusy <= K after
\* every step.
C6_CapacityRespected ==
    (Stepped /\ Config.maxCapacity # Undefined) =>
        State.queueLength + State.serversBusy <= Config.maxCapacity[1]

\* C7: reset() leaves all seven state fields at 0 and keeps the live
\* configuration.
C7_ResetZeroesState ==
    [][lastOp' = "reset" =>
          /\ State'.currentTime = Zero
          /\ State'.queueLength = 0
          /\ State'.serversBusy = 0
          /\ State'.totalArrivals = 0
          /\ State'.totalServed = 0
          /\ State'.cumulativeQueueLength = 0
          /\ State'.timeSteps = 0
          /\ Config' = Config]_vars

\* C7 witness: reset() has run on an engine whose configuration was updated
\* to a finite capacity and one server.
C7_Witness ==
    /\ lastOp = "reset"
    /\ cfgRef # CallerConfig
    /\ Config.maxCapacity # Undefined
    /\ Config.numServers = 1

\* C8: updateConfig(partial) sets exactly the fields partial names, keeps the
\* other configuration fields and leaves the state as it was.
C8_UpdateConfigFrame ==
    [][lastOp' = "updateConfig" =>
          /\ \A f \in ConfigFields :
                Config'[f] = IF f \in DOMAIN lastArg'.partial
                             THEN lastArg'.partial[f] ELSE Config[f]
          /\ State' = State]_vars

\* C8 witness: updateConfig has changed numServers alone on an engine that
\* had already stepped and has customers in its counters.
C8_Witness ==
    /\ lastOp = "updateConfig"
    /\ DOMAIN lastArg.partial = {"numServers"}
    /\ Config.numServers = 1
    /\ State.timeSteps >= 2
    /\ State.serversBusy = 2

\* C9: a snapshot returned by getState() is a copy: step() and reset() leave
\* it as it was, and a write to it changes neither the engine's state nor
\* what getState(), getQueueLength() and getCurrentTime() return.
C9_SnapshotIsCopy ==
    [][/\ (snapRef # 0 /\ lastOp' \in {"step", "reset"}) =>
             /\ snapRef' = snapRef
             /\ stateObjs'[snapRef] = stateObjs[snapRef]
       /\ lastOp' = "getState" => stateObjs'[snapRef'] = State
       /\ lastOp' = "writeSnapshot" =>
             /\ State' = State
             /\ getQueueLength' = getQueueLength
             /\ getCurrentTime' = getCurrentTime
             /\ (getState.objs[getState.ref])' = getState.objs[getState.ref]]_vars

\* C9 witness: the engine has stepped since the snapshot was taken, and the
\* snapshot still holds the older values.
C9_Witness ==
    /\ snapRef # 0
    /\ lastOp = "step"
    /\ stateObjs[snapRef].timeSteps < State.timeSteps
    /\ stateObjs[snapRef].queueLength # State.queueLength

\* C10: simulate(duration) at time t0 runs exactly ceil(duration / timeStep)
\* steps, returns one sample per step, sample i being the queueLength after
\* step i, and ends with t0 + duration <= currentTime < t0 + duration +
\* timeStep; for duration <= 0 it runs no step, returns no sample and changes
\* no state.
C10_SimulateStepCount ==
    lastOp = "simulate" =>
        LET duration == lastArg.duration
            targetTime == FAdd(lastArg.from.currentTime, Tenths(duration))
            n == Len(lastArg.states)
        IN  /\ Len(lastArg.samples) = n
            /\ \A i \in 1..n : lastArg.samples[i] = lastArg.states[i].queueLength
            /\ duration > 0 =>
                  /\ n = CeilDiv(duration, Config.timeStep)
                  /\ ~FLess(State.currentTime, targetTime)
                  /\ FLess(State.currentTime, FAdd(targetTime, Tenths(Config.timeStep)))
            /\ duration <= 0 =>
                  /\ n = 0
                  /\ State = lastArg.from

\* The parameter set the analytic models were last applied to.
Params == lastArg.params

\* C12: for arrivalRate >= numServers * serviceRate, MMCQueueingModel's
\* calculateMetrics returns isStable = false, Infinity in each of the four
\* derived metrics, and utilization = arrivalRate / (serviceRate * numServers).
C12_UnstableMetricsInfinite ==
    (/\ lastOp = "MMCQueueingModel"
     /\ Params.arrivalRate >= Params.numServers * Params.serviceRate) =>
        /\ lastArg.metrics.isStable = FALSE
        /\ lastArg.metrics.averageQueueLength = Infinity
        /\ lastArg.metrics.averageSystemLength = Infinity
        /\ lastArg.metrics.averageWaitTime = Infinity
        /\ lastArg.metrics.averageSystemTime = Infinity
        /\ lastArg.metrics.utilization =
              Number(Params.arrivalRate, Params.serviceRate * Params.numServers)

C12_Witness ==
    /\ lastOp = "MMCQueueingModel"
    /\ Params.arrivalRate > Params.numServers * Params.serviceRate
    /\ Params.numServers > 1
    /\ lastArg.metrics.averageSystemTime = Infinity
    /\ Less(Whole(1), lastArg.metrics.utilization)

\* C13: isSystemStable is true exactly when arrivalRate < serviceRate *
\* numServers; a utilization of exactly 1 is unstable.
C13_StableIffBelowCapacity ==
    lastOp = "MMCQueueingModel" =>
        (lastArg.isStable <=>
            Params.arrivalRate < Params.serviceRate * Params.numServers)

C13_Witness ==
    /\ lastOp = "MMCQueueingModel"
    /\ Params.arrivalRate = Params.serviceRate * Params.numServers
    /\ lastArg.metrics.utilization = Whole(1)
    /\ ~lastArg.isStable

\* C14: calculateErlangC is in [0, 1] for stable parameters, is exactly 1
\* whenever arrivalRate / serviceRate >= numServers, and so is 1 for exactly
\* the parameter sets isSystemStable classifies as unstable.
C14_ErlangCRange ==
    lastOp = "MMCQueueingModel" =>
        /\ Geq(lastArg.erlangC, Whole(0))
        /\ Geq(Whole(1), lastArg.erlangC)
        /\ Params.arrivalRate >= Params.numServers * Params.serviceRate =>
              lastArg.erlangC = Whole(1)
        /\ lastArg.erlangC = Whole(1) <=> ~lastArg.isStable

C14_Witness ==
    /\ lastOp = "MMCQueueingModel"
    /\ lastArg.isStable
    /\ Params.numServers > 1
    /\ Less(Whole(0), lastArg.erlangC)
    /\ Less(lastArg.erlangC, Whole(1))

\* C15: the metrics of a stable M/M/c system satisfy Little's Law, as exact
\* ratios: L = arrivalRate * W, Lq = arrivalRate * Wq, and
\* L = Lq + arrivalRate / serviceRate.
C15_LittlesLaw ==
    (lastOp = "MMCQueueingModel" /\ lastArg.metrics.isStable) =>
        LET m == lastArg.metrics
        IN  /\ m.averageSystemLength = Mul(Whole(Params.arrivalRate), m.averageSystemTime)
            /\ m.averageQueueLength = Mul(Whole(Params.arrivalRate), m.averageWaitTime)
            /\ m.averageSystemLength =
                  Add(m.averageQueueLength, Number(Params.arrivalRate, Params.serviceRate))

C15_Witness ==
    /\ lastOp = "MMCQueueingModel"
    /\ lastArg.metrics.isStable
    /\ Params.numServers > 1
    /\ Params.arrivalRate # Params.serviceRate
    /\ Less(Whole(0), lastArg.metrics.averageWaitTime)
    /\ isFinite(lastArg.metrics.averageSystemTime)

\* The numeric fields of MMCKQueueMetrics.
MetricFields ==
    {"utilization", "averageQueueLength", "averageSystemLength", "averageWaitTime",
     "averageSystemTime", "rejectionProbability"}

\* C16: for every maxCapacity >= numServers, whether the utilization is
\* below, equal to or above 1, MMCKQueueingModel's calculateMetrics returns
\* isStable = true and a finite number in every numeric field.
C16_FiniteCapacityAlwaysStable ==
    lastOp = "MMCKQueueingModel" =>
        /\ lastArg.metrics.isStable = TRUE
        /\ \A f \in MetricFields : isFinite(lastArg.metrics[f])

C16_Witness ==
    /\ lastOp = "MMCKQueueingModel"
    /\ Params.arrivalRate = Params.numServers * Params.serviceRate
    /\ Params.maxCapacity > Params.numServers
    /\ lastArg.metrics.isStable
    /\ Less(Whole(0), lastArg.metrics.averageQueueLength)
    /\ isFinite(lastArg.metrics.averageSystemTime)

\* C17: for positive rates and maxCapacity >= numServers, the branch for a
\* utilization of 1 and the branch for maxCapacity <= numServers included,
\* calculateRejectionProbability returns Pb with 0 <= Pb <= 1.
C17_RejectionProbabilityRange ==
    lastOp = "MMCKQueueingModel" =>
        /\ Geq(lastArg.rejectionProbability, Whole(0))
        /\ Geq(Whole(1), lastArg.rejectionProbability)

C17_Witness ==
    /\ lastOp = "MMCKQueueingModel"
    /\ Params.arrivalRate = Params.numServers * Params.serviceRate
    /\ Params.maxCapacity = Params.numServers
    /\ Less(Whole(0), lastArg.rejectionProbability)
    /\ Less(lastArg.rejectionProbability, Whole(1))

\* C18: the M/M/c/K metrics satisfy Little's Law with the effective arrival
\* rate lambdaEff = arrivalRate * (1 - Pb), as exact ratios:
\* L = lambdaEff * W and Lq = lambdaEff * Wq.
C18_LittlesLawEffectiveRate ==
    lastOp = "MMCKQueueingModel" =>
        LET m == lastArg.metrics
            lambdaEff == Mul(Whole(Params.arrivalRate),
                             Sub(Whole(1), m.rejectionProbability))
        IN  /\ m.averageSystemLength = Mul(lambdaEff, m.averageSystemTime)
            /\ m.averageQueueLength = Mul(lambdaEff, m.averageWaitTime)

C18_Witness ==
    /\ lastOp = "MMCKQueueingModel"
    /\ Params.maxCapacity > Params.numServers
    /\ Less(Whole(0), lastArg.metrics.rejectionProbability)
    /\ Less(Whole(0), lastArg.metrics.averageWaitTime)
    /\ Less(lastArg.metrics.averageWaitTime, lastArg.metrics.averageSystemTime)

\* C19: for maxCapacity = numServers, in the branch for a utilization of 1
\* and in the general branch, calculateAverageQueueLength returns 0 and
\* calculateRejectionProbability a strictly positive Pb.
C19_NoWaitingRoom ==
    (lastOp = "MMCKQueueingModel" /\ Params.maxCapacity = Params.numServers) =>
        /\ lastArg.averageQueueLength = Whole(0)
        /\ Less(Whole(0), lastArg.rejectionProbability)

C19_Witness ==
    /\ lastOp = "MMCKQueueingModel"
    /\ Params.maxCapacity = Params.numServers
    /\ Params.arrivalRate # Params.numServers * Params.serviceRate
    /\ lastArg.averageQueueLength = Whole(0)
    /\ lastArg.metrics.averageWaitTime = Whole(0)
    /\ Less(Whole(0), lastArg.rejectionProbability)

\* One step from the state before to the state after admitted at most one
\* arrival.
AtMostOneArrival(before, after) ==
    /\ after.totalArrivals - before.totalArrivals \in {0, 1}
    /\ after.queueLength <= before.queueLength + 1

\* C20: each step admits at most one arrival: totalArrivals grows by 0 or 1
\* and queueLength by at most 1 per step, those of simulate() included, so
\* totalArrivals <= timeSteps in every state reached.
C20_AtMostOneArrivalPerStep ==
    [][/\ lastOp' = "step" => AtMostOneArrival(State, State')
       /\ lastOp' = "simulate" =>
             \A i \in 1..Len(lastArg'.states) :
                AtMostOneArrival(IF i = 1 THEN lastArg'.from ELSE lastArg'.states[i - 1],
                                 lastArg'.states[i])
       /\ State'.totalArrivals <= State'.timeSteps]_vars

C20_Witness ==
    /\ lastOp = "step"
    /\ State.timeSteps = MaxSteps
    /\ State.totalArrivals = State.timeSteps

\* The sum of a sequence of whole numbers.
RECURSIVE Sum(_)
Sum(seq) == IF seq = <<>> THEN 0 ELSE seq[1] + Sum(Tail(seq))

C22_CompletionsWithinBusy ==
    lastOp = "step" =>
        LET before == lastArg.before
            arrivals == State.totalArrivals - before.totalArrivals
            busy == Min(before.queueLength + arrivals + before.serversBusy,
                        Config.numServers)
            completions == State.totalServed - before.totalServed
        IN  /\ completions >= 0
            /\ completions <= busy
            /\ State.serversBusy = busy - completions
            /\ completions <= Config.numServers

C22_Witness ==
    /\ lastOp = "step"
    /\ Config.numServers = MaxServers
    /\ State.totalServed - lastArg.before.totalServed = Config.numServers
    /\ State.serversBusy = 0

\* C26: in every state reached by steps from the initial or a reset state,
\* totalArrivals - totalServed <= queueLength <= totalArrivals.
C26_QueueBetweenUnservedAndArrived ==
    /\ State.totalArrivals - State.totalServed <= State.queueLength
    /\ State.queueLength <= State.totalArrivals

C26_Witness ==
    /\ Stepped
    /\ State.totalServed > 0
    /\ State.totalArrivals - State.totalServed < State.queueLength
    /\ State.queueLength < State.totalArrivals

\* C27: when updateConfig has lowered numServers below serversBusy, the next
\* step computes the busy servers against the new numServers: after every
\* step serversBusy <= the numServers configured when the step ran.
C27_StepAppliesLoweredServers ==
    lastOp = "step" => State.serversBusy <= Config.numServers

C27_Witness ==
    /\ lastOp = "step"
    /\ lastArg.before.serversBusy > Config.numServers
    /\ State.serversBusy <= Config.numServers
    /\ State.totalServed = lastArg.before.totalServed

\* C28: a step that starts with queueLength = 0 and serversBusy = 0 and has
\* no arrival records no completion and leaves queueLength, serversBusy,
\* totalArrivals, totalServed and cumulativeQueueLength unchanged; timeSteps
\* and currentTime advance.
C28_IdleStepFrame ==
    (/\ lastOp = "step"
     /\ lastArg.before.queueLength = 0
     /\ lastArg.before.serversBusy = 0
     /\ State.totalArrivals = lastArg.before.totalArrivals) =>
        /\ State.queueLength = 0
        /\ State.serversBusy = 0
        /\ State.totalServed = lastArg.before.totalServed
        /\ State.cumulativeQueueLength = lastArg.before.cumulativeQueueLength
        /\ State.timeSteps = lastArg.before.timeSteps + 1
        /\ FLess(lastArg.before.currentTime, State.currentTime)

C28_Witness ==
    /\ lastOp = "step"
    /\ lastArg.before.queueLength = 0
    /\ lastArg.before.serversBusy = 0
    /\ lastArg.before.totalServed > 0
    /\ State.totalArrivals = lastArg.before.totalArrivals
    /\ State.timeSteps = lastArg.before.timeSteps + 1

\* No counter of the state after is below that of the state before.
NotLowered(before, after) ==
    /\ ~FLess(after.currentTime, before.currentTime)
    /\ after.timeSteps >= before.timeSteps
    /\ after.totalArrivals >= before.totalArrivals
    /\ after.totalServed >= before.totalServed
    /\ after.cumulativeQueueLength >= before.cumulativeQueueLength

\* C29: step(), the steps of simulate() and updateConfig() never lower
\* currentTime, timeSteps, totalArrivals, totalServed or
\* cumulativeQueueLength; only reset() lowers any of them.
C29_CountersMonotonic ==
    [][/\ lastOp' \in {"step", "updateConfig"} => NotLowered(State, State')
       /\ lastOp' = "simulate" =>
             \A i \in 1..Len(lastArg'.states) :
                NotLowered(IF i = 1 THEN lastArg'.from ELSE lastArg'.states[i - 1],
                           lastArg'.states[i])
       /\ ~NotLowered(State, State') => lastOp' = "reset"]_vars

C29_Witness ==
    /\ lastOp = "updateConfig"
    /\ State.timeSteps = MaxSteps
    /\ State.totalServed > 0
    /\ State.cumulativeQueueLength > 0
    /\ State.queueLength = 0

\* C24: the engine does not keep the caller's configuration object: a write
\* to a field of the object passed to the constructor leaves the
\* configuration that later steps read as it was.
C24_CallerConfigNotKept ==
    [][lastOp' = "writeConfig" => Config' = Config]_vars

\* C25: simulate(duration) terminates for every finite duration while
\* timeStep > 0 stays configured, because each iteration of its loop leaves
\* currentTime strictly larger than it found it.
C25_IterationAdvancesTime ==
    [][(InLoop /\ InLoop') => FLess(State.currentTime, State'.currentTime)]_vars

C30_DataIsRollingWindow ==
    [][app' # NoApp =>
       LET d == app.data
           e == app'.data
           n == CeilDiv(app.simulationSpeed, 2)
           all == Append(d, [time |-> State'.currentTime,
                             queueLength |-> State'.queueLength])
       IN  /\ Len(e) \in 1..MaxPoints
           /\ lastOp' = "tick" =>
                 /\ n >= 1
                 /\ State'.timeSteps = State.timeSteps + n
                 /\ Len(e) = Min(Len(d) + 1, MaxPoints)
                 /\ \A i \in 1..Len(e) : e[i] = all[Len(all) - Len(e) + i]
           /\ lastOp' \in {"handleReset", "handleModelChange"} =>
                 e = <<[time |-> Zero, queueLength |-> 0]>>
           /\ lastOp' \notin {"tick", "handleReset", "handleModelChange"} => e = d]_vars

\* A tick has pushed the oldest point, (0, 0), out of a full window.
C30_Witness ==
    /\ app # NoApp
    /\ lastOp = "tick"
    /\ Len(app.data) = MaxPoints
    /\ app.data[1] # [time |-> Zero, queueLength |-> 0]

====
